---- MODULE Spec2Model ----
(***************************************************************************)
(* A model of search.py: the token normaliser clean, the Document class    *)
(* (term-frequency table of one file) and the SearchEngine class (inverted *)
(* index, inverse document frequency and ranked search).                   *)
(*                                                                         *)
(* Strings are sequences of one-character strings.  A Python float is      *)
(* modelled exactly: a term frequency is the rational num/den, an inverse  *)
(* document frequency is the logarithm of a rational, a score is their     *)
(* product.  An exception leaving a call is the call's status.             *)
(***************************************************************************)
EXTENDS Integers, Sequences, FiniteSets, TLC

VARIABLES cleanHist, text, doc, directory, engine, loaded, call

vars == <<cleanHist, text, doc, directory, engine, loaded, call>>

(***************************************************************************)
(* Bounds of the model.                                                    *)
(***************************************************************************)
MaxLen == 3        \* longest string handed to clean
MaxText == 4       \* longest text of a file loaded on its own
MaxTokens == 2     \* most tokens in a file of the directory
MaxFiles == 2      \* most entries in the directory
MaxQuery == 2      \* most raw tokens in a query

(***************************************************************************)
(* Characters.  "U+4E2D" stands for the one character of that code point,  *)
(* a letter that has no case.                                              *)
(***************************************************************************)
LowerLetters == {"a", "b"}
UpperLetters == {"A"}
UncasedLetters == {"U+4E2D"}
Digits == {"1"}
Underscore == {"_"}
Punctuation == {"!"}
Whitespace == {" "}

Alphabet == LowerLetters \cup UpperLetters \cup UncasedLetters \cup Digits
            \cup Underscore \cup Punctuation \cup Whitespace

RECURSIVE SeqsUpTo(_, _)
SeqsUpTo(S, n) ==
    IF n = 0 THEN {<<>>}
    ELSE LET shorter == SeqsUpTo(S, n - 1)
         IN  shorter \cup {Append(s, x) : s \in {r \in shorter : Len(r) = n - 1}, x \in S}

(***************************************************************************)
(* clean(token): token.lower(), then every match of \W+ deleted.           *)
(***************************************************************************)
LowerChar(c) == IF c = "A" THEN "a" ELSE c

lower(s) == [i \in 1..Len(s) |-> LowerChar(s[i])]

\* \w of a str pattern: letters of any case or none, digits, the underscore
IsWordChar(c) ==
    c \in LowerLetters \cup UpperLetters \cup UncasedLetters \cup Digits \cup Underscore

\* pattern.sub("", s): every maximal run of non-word characters is deleted
PatternSub(s) == SelectSeq(s, IsWordChar)

\* clean without the call of lower
clean_no_lower(token) == PatternSub(token)

clean(token) == PatternSub(lower(token))

(***************************************************************************)
(* str.split(): the maximal runs of non-whitespace characters, in order.   *)
(***************************************************************************)
RECURSIVE SplitFrom(_, _, _, _)
SplitFrom(s, i, cur, acc) ==
    IF i > Len(s)
    THEN IF cur = <<>> THEN acc ELSE Append(acc, cur)
    ELSE IF s[i] \in Whitespace
         THEN SplitFrom(s, i + 1, <<>>, IF cur = <<>> THEN acc ELSE Append(acc, cur))
         ELSE SplitFrom(s, i + 1, Append(cur, s[i]), acc)

split(s) == SplitFrom(s, 1, <<>>, <<>>)

(***************************************************************************)
(* Document.  A Document is [id, filename, frequency]: id stands for the   *)
(* identity of the Python object, frequency is the dict as a function from *)
(* terms to rationals [num, den].  A constructor that raises yields a      *)
(* record whose error field names the exception.                           *)
(***************************************************************************)
Rat(n, d) == [num |-> n, den |-> d]

RatEq(x, y) == x.num * y.den = y.num * x.den

NoError == "none"

\* lines 24-28: the value of frequency[word] after the first loop; the
\* increment sits inside the test for a new key, so it runs once per key
CountTable(tokens) ==
    [w \in {clean(tokens[i]) : i \in 1..Len(tokens)} |-> 1]

\* the division done before the loop, once for the file
DivideTable_eager(counts, n) ==
    IF n = 0
    THEN [error |-> "ZeroDivisionError", frequency |-> <<>>]
    ELSE [error |-> NoError, frequency |-> [w \in DOMAIN counts |-> Rat(counts[w], n)]]

\* lines 29-30: every key divided by len(tokens); a division by zero raises
DivideTable(counts, n) ==
    IF DOMAIN counts # {} /\ n = 0
    THEN [error |-> "ZeroDivisionError", frequency |-> <<>>]
    ELSE [error |-> NoError, frequency |-> [w \in DOMAIN counts |-> Rat(counts[w], n)]]

Document(id, filename, contents) ==
    LET tokens == split(contents)
        table == DivideTable(CountTable(tokens), Len(tokens))
    IN  [id |-> id, filename |-> filename, error |-> table.error,
         frequency |-> table.frequency]

term_frequency(d, term) ==
    LET t == clean(term)
    IN  IF t \in DOMAIN d.frequency THEN d.frequency[t] ELSE Rat(0, 1)

get_path(d) == d.filename

get_words(d) == DOMAIN d.frequency

(***************************************************************************)
(* SearchEngine.  The directory is the sequence os.listdir returns, each   *)
(* entry [name, contents].  An engine is [error, path, inverted_index,     *)
(* files]: inverted_index is the dict as a function from terms to          *)
(* sequences of Documents, files is the set self.files.                    *)
(***************************************************************************)
endswith(s, suffix) ==
    /\ Len(suffix) <= Len(s)
    /\ SubSeq(s, Len(s) - Len(suffix) + 1, Len(s)) = suffix

\* os.path.join(path, filename)
join(path, filename) == path \o <<"/">> \o filename

\* the append of line 110 moved into the test of line 108
AddDocument_new_key_only(index, file) ==
    [w \in DOMAIN index \cup get_words(file) |->
        IF w \in DOMAIN index THEN index[w] ELSE <<file>>]

\* lines 107-110: file appended to the posting list of each of its words
AddDocument(index, file) ==
    [w \in DOMAIN index \cup get_words(file) |->
        IF w \in get_words(file)
        THEN Append(IF w \in DOMAIN index THEN index[w] ELSE <<>>, file)
        ELSE index[w]]

\* lines 104-110: the loop over the listing.  files is handed through
\* unchanged: no statement of the loop adds to it (line 106 ends in a
\* comment).  made is the sequence of Documents the loop has constructed.
RECURSIVE IndexListing(_, _, _, _, _, _, _)
IndexListing(path, extension, listing, i, index, files, made) ==
    IF i > Len(listing)
    THEN [error |-> NoError, inverted_index |-> index, files |-> files, made |-> made]
    ELSE IF endswith(listing[i].name, extension)
         THEN LET file == Document(Len(made) + 1, join(path, listing[i].name),
                                   listing[i].contents)
              IN  IF file.error # NoError
                  THEN [error |-> file.error, inverted_index |-> <<>>,
                        files |-> {}, made |-> made]
                  ELSE IndexListing(path, extension, listing, i + 1,
                                    AddDocument(index, file), files, Append(made, file))
         ELSE IndexListing(path, extension, listing, i + 1, index, files, made)

\* SearchEngine.__init__
SearchEngineInit(path, extension, listing) ==
    LET r == IndexListing(path, extension, listing, 1, <<>>, {}, <<>>)
    IN  [error |-> r.error, path |-> path, inverted_index |-> r.inverted_index,
         files |-> r.files, made |-> r.made]

(***************************************************************************)
(* Numbers of the ranking.  Ln(x) is the float math.log returns for the    *)
(* rational x > 0, kept as [ln |-> x]; the number 0 is Ln(1).  A score is  *)
(* [tf, ln]: the product tf * ln(ln).                                      *)
(***************************************************************************)
Ln(x) == [ln |-> x]

\* math.log of the quotient n / d
math_log_quotient(n, d) ==
    IF d = 0 THEN [error |-> "ZeroDivisionError", value |-> Ln(Rat(1, 1))]
    ELSE IF n <= 0 THEN [error |-> "ValueError", value |-> Ln(Rat(1, 1))]
    ELSE [error |-> NoError, value |-> Ln(Rat(n, d))]

_calculate_idf(eng, term) ==
    IF term \in DOMAIN eng.inverted_index
    THEN math_log_quotient(Cardinality(eng.files), Len(eng.inverted_index[term]))
    ELSE [error |-> NoError, value |-> Ln(Rat(1, 1))]

Score(tf, idf) == [tf |-> tf, ln |-> idf.ln]

ZeroScore == Score(Rat(0, 1), Ln(Rat(1, 1)))

RECURSIVE Pow(_, _)
Pow(b, e) == IF e = 0 THEN 1 ELSE b * Pow(b, e - 1)

\* s1 >= s2, that is tf1 * ln(r1) >= tf2 * ln(r2), decided in the integers:
\* r1 ^ (tf1.num * tf2.den) >= r2 ^ (tf2.num * tf1.den)
ScoreGE(s1, s2) ==
    LET e1 == s1.tf.num * s2.tf.den
        e2 == s2.tf.num * s1.tf.den
    IN  Pow(s1.ln.num, e1) * Pow(s2.ln.den, e2) >= Pow(s2.ln.num, e2) * Pow(s1.ln.den, e1)

ScoreEq(s1, s2) == ScoreGE(s1, s2) /\ ScoreGE(s2, s1)

(***************************************************************************)
(* search.  output is the dict of line 134 as the sequence of its items    *)
(* [path, score] in insertion order.                                       *)
(***************************************************************************)
Keys(output) == [i \in 1..Len(output) |-> output[i].path]

HasKey(output, path) == \E i \in 1..Len(output) : output[i].path = path

\* output[path] = score: a present key keeps its place, a new key goes last
Put(output, path, score) ==
    IF HasKey(output, path)
    THEN [i \in 1..Len(output) |->
            IF output[i].path = path THEN [path |-> path, score |-> score] ELSE output[i]]
    ELSE Append(output, [path |-> path, score |-> score])

Get(output, path) ==
    output[CHOOSE i \in 1..Len(output) : output[i].path = path].score

\* lines 138-142: the loop over one posting list.  The test of line 140
\* looks a Document up among keys that are paths and never finds it.
RECURSIVE ScorePostings(_, _, _, _)
ScorePostings(eng, term, i, output) ==
    IF i > Len(eng.inverted_index[term])
    THEN [error |-> NoError, output |-> output]
    ELSE LET file == eng.inverted_index[term][i]
             idf == _calculate_idf(eng, term)
         IN  IF idf.error # NoError
             THEN [error |-> idf.error, output |-> output]
             ELSE LET tf_idf == Score(term_frequency(file, term), idf.value)
                      zeroed == Put(output, get_path(file), ZeroScore)
                  IN  ScorePostings(eng, term, i + 1, Put(zeroed, get_path(file), tf_idf))

\* lines 135-142: the loop over the words of the query
RECURSIVE ScoreWords(_, _, _, _)
ScoreWords(eng, words, i, output) ==
    IF i > Len(words)
    THEN [error |-> NoError, output |-> output]
    ELSE LET term == clean(words[i])
         IN  IF term \in DOMAIN eng.inverted_index
             THEN LET r == ScorePostings(eng, term, 1, output)
                  IN  IF r.error # NoError THEN r
                      ELSE ScoreWords(eng, words, i + 1, r.output)
             ELSE ScoreWords(eng, words, i + 1, output)

\* one item put into a sequence sorted by descending score, behind its equals
InsertDescending(sorted, item) ==
    LET before == {i \in 1..Len(sorted) : ScoreGE(sorted[i].score, item.score)}
        k == IF \A i \in 1..Len(sorted) : i \in before THEN Len(sorted)
             ELSE (CHOOSE i \in 1..Len(sorted) :
                      /\ i \notin before
                      /\ \A j \in 1..(i - 1) : j \in before) - 1
    IN  SubSeq(sorted, 1, k) \o <<item>> \o SubSeq(sorted, k + 1, Len(sorted))

\* sorted(output.keys(), key=lambda x: output[x], reverse=True): stable
RECURSIVE SortedDescending(_, _, _)
SortedDescending(output, i, sorted) ==
    IF i > Len(output) THEN Keys(sorted)
    ELSE SortedDescending(output, i + 1, InsertDescending(sorted, output[i]))

search(eng, query) ==
    LET r == ScoreWords(eng, split(query), 1, <<>>)
    IN  IF r.error # NoError
        THEN [error |-> r.error, ret |-> <<>>, output |-> <<>>]
        ELSE [error |-> NoError, ret |-> SortedDescending(r.output, 1, <<>>),
              output |-> r.output]

(***************************************************************************)
(* Inputs.                                                                 *)
(***************************************************************************)
RECURSIVE JoinTokens(_)
JoinTokens(tokens) ==
    IF tokens = <<>> THEN <<>>
    ELSE IF Len(tokens) = 1 THEN tokens[1]
    ELSE tokens[1] \o <<" ">> \o JoinTokens(Tail(tokens))

CleanInputs == SeqsUpTo(Alphabet, MaxLen)

TextChars == {"a", "A", "b", "!", " "}

Texts == SeqsUpTo(TextChars, MaxText)

FileTokens == {<<"A", "!">>, <<"b">>, <<"!">>}

FileTexts == {JoinTokens(ts) : ts \in SeqsUpTo(FileTokens, MaxTokens)} \cup {<<" ">>}

QueryTokens == {<<"A">>, <<"b">>, <<"!">>}

Queries == {JoinTokens(ts) : ts \in SeqsUpTo(QueryTokens, MaxQuery)}

DocTerms == {<<"a">>, <<"A", "!">>, <<"b">>, <<"!">>, <<>>, <<"1">>}

IdfTerms == {<<"a">>, <<"b">>, <<>>, <<"1">>}

TxtNames == {<<"1", ".", "t", "x", "t">>, <<"2", ".", "t", "x", "t">>}

OtherName == <<"3", ".", "m", "d">>

OtherContents == <<"b">>

Names == TxtNames \cup {OtherName}

\* the names os.listdir returns: no name twice, in any order
Listings ==
    {l \in SeqsUpTo(Names, MaxFiles) :
        \A i, j \in 1..Len(l) : i # j => l[i] # l[j]}

\* the directory with the names of listing, contents giving the text files
DirectoryOf(listing, contents) ==
    [i \in 1..Len(listing) |->
        [name |-> listing[i],
         contents |-> IF listing[i] = OtherName THEN OtherContents
                      ELSE contents[listing[i]]]]

DirPath == <<"d">>

Extension == <<".", "t", "x", "t">>

DocPath == <<"f">>

(***************************************************************************)
(* State.                                                                  *)
(*   cleanHist  a string followed by the results of clean applied to it    *)
(*   text, doc  a file's text and the Document constructed from it         *)
(*   directory  the listing and contents of the directory                  *)
(*   engine     the SearchEngine constructed from the directory            *)
(*   loaded     the Documents the constructor made, in order               *)
(*   call       the last call on the engine or the Document and its result *)
(***************************************************************************)
NotConstructed == "not constructed"

NoDocument ==
    [id |-> 0, filename |-> <<>>, error |-> NotConstructed, frequency |-> <<>>]

NoEngine ==
    [error |-> NotConstructed, path |-> <<>>, inverted_index |-> <<>>, files |-> {}]

NoCall ==
    [op |-> "none", arg |-> <<>>, error |-> NoError, ret |-> <<>>,
     value |-> Rat(0, 1), output |-> <<>>]

Built == engine.error = NoError

\* clean applied to the last string of cleanHist
Clean ==
    /\ cleanHist # <<>>
    /\ Len(cleanHist) < 3
    /\ cleanHist' = Append(cleanHist, clean(cleanHist[Len(cleanHist)]))
    /\ UNCHANGED <<text, doc, directory, engine, loaded, call>>

\* Document(filename) on a file holding text
LoadDocument ==
    /\ doc = NoDocument
    /\ doc' = Document(1, DocPath, text)
    /\ UNCHANGED <<cleanHist, text, directory, engine, loaded, call>>

\* doc.term_frequency(term).  No call changes an attribute of the Document or
\* of the engine, so the first call of a behaviour reaches every result.
DocTermFrequency(term) ==
    /\ doc.error = NoError
    /\ call = NoCall
    /\ call' = [NoCall EXCEPT !.op = "term_frequency", !.arg = term,
                              !.value = term_frequency(doc, term)]
    /\ UNCHANGED <<cleanHist, text, doc, directory, engine, loaded>>

\* SearchEngine(path) on the directory
Build ==
    /\ engine = NoEngine
    /\ LET e == SearchEngineInit(DirPath, Extension, directory)
       IN  /\ engine' = [error |-> e.error, path |-> e.path,
                         inverted_index |-> e.inverted_index, files |-> e.files]
           /\ loaded' = e.made
    /\ UNCHANGED <<cleanHist, text, doc, directory, call>>

\* engine._calculate_idf(term)
CalculateIdf(term) ==
    /\ Built
    /\ call = NoCall
    /\ LET r == _calculate_idf(engine, term)
       IN  call' = [NoCall EXCEPT !.op = "_calculate_idf", !.arg = term,
                                  !.error = r.error, !.value = r.value.ln]
    /\ UNCHANGED <<cleanHist, text, doc, directory, engine, loaded>>

\* engine.search(query)
Search(query) ==
    /\ Built
    /\ call = NoCall
    /\ LET r == search(engine, query)
       IN  call' = [NoCall EXCEPT !.op = "search", !.arg = query, !.error = r.error,
                                  !.ret = r.ret, !.output = r.output]
    /\ UNCHANGED <<cleanHist, text, doc, directory, engine, loaded>>

\* clean on its own
InitClean ==
    /\ cleanHist \in {<<t>> : t \in CleanInputs}
    /\ text = <<>> /\ doc = NoDocument
    /\ directory = <<>> /\ engine = NoEngine /\ loaded = <<>> /\ call = NoCall

NextClean == Clean

SpecClean == InitClean /\ [][NextClean]_vars

\* one Document on its own
InitDocument ==
    /\ text \in Texts
    /\ doc = NoDocument
    /\ cleanHist = <<>>
    /\ directory = <<>> /\ engine = NoEngine /\ loaded = <<>> /\ call = NoCall

NextDocument ==
    \/ LoadDocument
    \/ \E term \in DocTerms : DocTermFrequency(term)

SpecDocument == InitDocument /\ [][NextDocument]_vars

\* a SearchEngine over a directory
Init ==
    /\ \E listing \in Listings : \E contents \in [TxtNames -> FileTexts] :
          directory = DirectoryOf(listing, contents)
    /\ engine = NoEngine /\ loaded = <<>> /\ call = NoCall
    /\ cleanHist = <<>> /\ text = <<>> /\ doc = NoDocument

Next ==
    \/ Build
    \/ \E term \in IdfTerms : CalculateIdf(term)
    \/ \E query \in Queries : Search(query)

Spec == Init /\ [][Next]_vars

(***************************************************************************)
(* Properties of clean, checked under SpecClean.                           *)
(***************************************************************************)
CharsOf(s) == {s[i] : i \in 1..Len(s)}

Cleaned == Len(cleanHist) >= 2

CleanedTwice == Len(cleanHist) = 3

\* C9, as stated: clean(clean(t)) = clean(t), and clean(t) holds only
\* lowercase letters, digits and underscores.
C9_IdempotentLowercaseOnly ==
    /\ CleanedTwice => cleanHist[3] = cleanHist[2]
    /\ Cleaned => CharsOf(cleanHist[2]) \subseteq LowerLetters \cup Digits \cup Underscore

\* C9, amended: clean(clean(t)) = clean(t), and clean(t) holds only word
\* characters (letters, digits, underscores), none of which lower-casing
\* changes; a letter without case is kept.
C9_IdempotentWordCharsOnly ==
    /\ CleanedTwice => cleanHist[3] = cleanHist[2]
    /\ Cleaned => \A c \in CharsOf(cleanHist[2]) : IsWordChar(c) /\ LowerChar(c) = c

\* clean has removed punctuation, lowered a letter, kept a letter without
\* case, and has been applied to its own result
C9_Witness ==
    /\ CleanedTwice
    /\ CharsOf(cleanHist[1]) \cap UpperLetters # {}
    /\ CharsOf(cleanHist[1]) \cap Punctuation # {}
    /\ CharsOf(cleanHist[2]) \cap UncasedLetters # {}
    /\ CharsOf(cleanHist[2]) \cap LowerLetters # {}

(***************************************************************************)
(* Properties of Document, checked under SpecDocument.                     *)
(***************************************************************************)
DocLoaded == doc.error = NoError

\* the number of raw tokens whose normalisation is t
RawCount(tokens, t) == Cardinality({i \in 1..Len(tokens) : clean(tokens[i]) = t})

Stored(d, t) == IF t \in DOMAIN d.frequency THEN d.frequency[t] ELSE Rat(0, 1)

RatAdd(x, y) == Rat(x.num * y.den + y.num * x.den, x.den * y.den)

RatTimes(x, n) == Rat(x.num * n, x.den)

\* the sum of f[t] * n over the terms t of S
RECURSIVE SumTimes(_, _, _)
SumTimes(f, S, n) ==
    IF S = {} THEN Rat(0, 1)
    ELSE LET t == CHOOSE u \in S : TRUE
         IN  RatAdd(RatTimes(f[t], n), SumTimes(f, S \ {t}, n))

\* C2: for a file of at least one token the stored frequency of every term t
\* is (raw tokens normalising to t) / (raw tokens), also when t occurs more
\* than once.
C2_FrequencyIsCountOverTotal ==
    LET tokens == split(text)
    IN  (DocLoaded /\ Len(tokens) >= 1) =>
            \A t \in {clean(term) : term \in DocTerms} \cup get_words(doc) :
                RatEq(Stored(doc, t), Rat(RawCount(tokens, t), Len(tokens)))

\* C8: for a file of N > 0 tokens, termFrequency(term) * N summed over the
\* distinct terms of the document (the empty term included) is N.
C8_FrequenciesSumToOne ==
    LET N == Len(split(text))
    IN  (DocLoaded /\ N > 0) =>
            RatEq(SumTimes(doc.frequency, get_words(doc), N), Rat(N, 1))

(***************************************************************************)
(* Properties of SearchEngine, checked under Spec.                         *)
(***************************************************************************)
Constructed == engine.error # NotConstructed

Loaded == {loaded[i] : i \in 1..Len(loaded)}

Postings(t) ==
    IF t \in DOMAIN engine.inverted_index THEN engine.inverted_index[t] ELSE <<>>

\* how many entries of the posting list of t are the Document d
Occurrences(d, t) ==
    Cardinality({k \in 1..Len(Postings(t)) : Postings(t)[k].id = d.id})

AllWords == UNION {get_words(d) : d \in Loaded}

\* C7: after build a loaded Document is in the posting list of t exactly once
\* if t is one of its words and not at all otherwise; the keys of the
\* inverted index are the union of the words of the loaded Documents, and no
\* posting list is empty.
C7_PostingsMatchWords ==
    Built =>
        /\ \A d \in Loaded :
             \A t \in DOMAIN engine.inverted_index \cup AllWords \cup IdfTerms :
                Occurrences(d, t) = IF t \in get_words(d) THEN 1 ELSE 0
        /\ DOMAIN engine.inverted_index = AllWords
        /\ \A t \in DOMAIN engine.inverted_index :
              /\ Len(engine.inverted_index[t]) >= 1
              /\ \A k \in 1..Len(engine.inverted_index[t]) :
                    engine.inverted_index[t][k] \in Loaded

\* two Documents loaded, a term in both and a term in only one of them
C7_Witness ==
    /\ Built
    /\ Len(loaded) = 2
    /\ \E t \in DOMAIN engine.inverted_index : Len(engine.inverted_index[t]) = 2
    /\ \E t \in DOMAIN engine.inverted_index : Len(engine.inverted_index[t]) = 1

\* the entries of the directory that build loads and that hold no token
EmptyFiles ==
    {i \in 1..Len(directory) :
        /\ endswith(directory[i].name, Extension)
        /\ split(directory[i].contents) = <<>>}

DocumentOf(i) ==
    {d \in Loaded : get_path(d) = join(DirPath, directory[i].name)}

\* C10: loading a file without tokens does not raise; its Document has an
\* empty frequency table and no words, termFrequency is 0.0 for every term,
\* the Document is in no posting list and no search returns it.
C10_EmptyFileLoadsAndNeverMatches ==
    Constructed =>
        /\ Built
        /\ \A i \in EmptyFiles :
              /\ DocumentOf(i) # {}
              /\ \A d \in DocumentOf(i) :
                    /\ d.frequency = <<>>
                    /\ get_words(d) = {}
                    /\ \A term \in DocTerms :
                          term_frequency(d, term) = Rat(0, 1)
                    /\ \A t \in DOMAIN engine.inverted_index : Occurrences(d, t) = 0
                    /\ call.op = "search" =>
                          \A k \in 1..Len(call.ret) : call.ret[k] # get_path(d)

\* a file without tokens was loaded beside one with tokens, and a query
\* with a term was searched
C10_Witness ==
    /\ Built
    /\ EmptyFiles # {}
    /\ Len(loaded) = 2
    /\ DOMAIN engine.inverted_index # {}
    /\ call.op = "search"
    /\ split(call.arg) # <<>>

Searched == call.op = "search"

\* the normalised terms of the query of the last call, in query order
QueryTerms == [i \in 1..Len(split(call.arg)) |-> clean(split(call.arg)[i])]

\* the places of the query whose term is a word of d
Hits(d) == {i \in 1..Len(QueryTerms) : QueryTerms[i] \in get_words(d)}

Matching == {d \in Loaded : Hits(d) # {}}

Max(S) == CHOOSE x \in S : \A y \in S : y <= x

Position(seq, x) == CHOOSE i \in 1..Len(seq) : seq[i] = x

\* C1: search(query) returns a list without duplicates whose elements are
\* exactly the paths of the loaded documents holding at least one of the
\* normalised query terms.
C1_SearchReturnsMatchingPaths ==
    Searched =>
        /\ call.error = NoError
        /\ \A i, j \in 1..Len(call.ret) : i # j => call.ret[i] # call.ret[j]
        /\ {call.ret[k] : k \in 1..Len(call.ret)} = {get_path(d) : d \in Matching}

\* C3: idf(term) is ln(N / df) for a key of the inverted index, N the number
\* of Documents build loaded and df the length of the term's posting list
\* (so N / df >= 1), and 0.0 for any other term.
C3_IdfIsLogOfRatio ==
    call.op = "_calculate_idf" =>
        /\ call.error = NoError
        /\ IF call.arg \in DOMAIN engine.inverted_index
           THEN /\ RatEq(call.value, Rat(Len(loaded), Len(Postings(call.arg))))
                /\ call.value.num >= call.value.den
           ELSE RatEq(call.value, Rat(1, 1))

\* C4: when a document holds several of the query's terms, the score search
\* ends with for its path is termFrequency(term) * idf(term) of the last
\* query term the document holds.
C4_LastMatchingTermScores ==
    Searched =>
        \A d \in Loaded :
            Cardinality({QueryTerms[i] : i \in Hits(d)}) >= 2 =>
                LET term == QueryTerms[Max(Hits(d))]
                    idf == _calculate_idf(engine, term)
                IN  /\ call.error = NoError
                    /\ idf.error = NoError
                    /\ HasKey(call.output, get_path(d))
                    /\ ScoreEq(Get(call.output, get_path(d)),
                               Score(term_frequency(d, term), idf.value))

\* C5: search(query) returns its list ordered by non-increasing final score,
\* paths of equal score in the order of their first insertion into the
\* accumulator.
C5_OrderedByScoreThenInsertion ==
    Searched =>
        /\ call.error = NoError
        /\ Len(call.ret) = Len(call.output)
        /\ \A i, j \in 1..Len(call.ret) :
              i < j =>
                 LET si == Get(call.output, call.ret[i])
                     sj == Get(call.output, call.ret[j])
                 IN  /\ ScoreGE(si, sj)
                     /\ ScoreEq(si, sj) =>
                           Position(Keys(call.output), call.ret[i])
                               < Position(Keys(call.output), call.ret[j])

\* C6: search raises no error for any query; an empty query, or one whose
\* terms match no document, returns the empty sequence.
C6_SearchNeverRaises ==
    Searched =>
        /\ call.error = NoError
        /\ Matching = {} => call.ret = <<>>

====
